---------------------------- MODULE Spec2Model ----------------------------
(***************************************************************************)
(* Model of MovieRenamer (src/main.py): the TMDB resolver search_tmdb with *)
(* its session cache, the batch thread that calls it once per file, and    *)
(* the UI handlers that run beside it (process_files, the settings dialog, *)
(* the override dialog, Clear) in Spec; the file-name normalizer of the    *)
(* batch thread in SpecNorm; Apply Renaming on a library in SpecApply.     *)
(*                                                                         *)
(* Text is modelled as sequences of one-character strings so that split,   *)
(* lower, the \b\d+\b substitution and the cache-key formatting are        *)
(* computed the way the Python code computes them.                         *)
(***************************************************************************)
EXTENDS Integers, Sequences, FiniteSets, TLC

(***************************************************************************)
(* Bounds of the model                                                     *)
(***************************************************************************)
MaxThreads == 2      \* threads that process_files can have running at once
MaxFiles == 2        \* files in one batch
MaxTotal == 2        \* files handed to process_files in one session
MaxTokens == 3       \* tokens a generated file name is made of
MaxItems == 2        \* items in the preview when Apply Renaming is pressed

(***************************************************************************)
(* Python values                                                           *)
(***************************************************************************)
\* None where a str is expected (a year, a release date): a value that is no
\* sequence of characters
None == <<"None">>

\* None where a dict is expected (the value returned by search_tmdb)
NoResult == [none |-> TRUE]

Digits == {"0", "1", "2", "3", "4", "5", "6", "7", "8", "9"}

UpperCase == <<"A", "B", "C", "D", "E", "F", "G", "H", "I", "J", "K", "L", "M",
               "N", "O", "P", "Q", "R", "S", "T", "U", "V", "W", "X", "Y", "Z">>

LowerCase == <<"a", "b", "c", "d", "e", "f", "g", "h", "i", "j", "k", "l", "m",
               "n", "o", "p", "q", "r", "s", "t", "u", "v", "w", "x", "y", "z">>

Range(f) == {f[i] : i \in DOMAIN f}

\* \w of the re module on the characters used here
IsWordChar(c) == c \in Range(UpperCase) \cup Range(LowerCase) \cup Digits \cup {"_"}

IsSpace(c) == c \in {" ", "\t", "\n"}

\* str.lower() of one character
LowerChar(c) ==
    IF c \in Range(UpperCase)
      THEN LowerCase[CHOOSE i \in DOMAIN UpperCase : UpperCase[i] = c]
      ELSE c

\* str.lower()
Lower(s) == [i \in DOMAIN s |-> LowerChar(s[i])]

\* int(c) of one digit
DigitVal(c) ==
    CASE c = "0" -> 0 [] c = "1" -> 1 [] c = "2" -> 2 [] c = "3" -> 3
      [] c = "4" -> 4 [] c = "5" -> 5 [] c = "6" -> 6 [] c = "7" -> 7
      [] c = "8" -> 8 [] c = "9" -> 9

\* int(m.group()) of a run of digits
RECURSIVE ParseInt(_)
ParseInt(ds) ==
    IF ds = <<>> THEN 0
    ELSE 10 * ParseInt(SubSeq(ds, 1, Len(ds) - 1)) + DigitVal(ds[Len(ds)])

\* str.split(): the maximal runs of non-whitespace characters
RECURSIVE SplitFrom(_, _, _)
SplitFrom(s, i, cur) ==
    IF i > Len(s)
      THEN (IF cur = <<>> THEN <<>> ELSE <<cur>>)
    ELSE IF IsSpace(s[i])
      THEN (IF cur = <<>> THEN <<>> ELSE <<cur>>) \o SplitFrom(s, i + 1, <<>>)
    ELSE SplitFrom(s, i + 1, Append(cur, s[i]))

Split(s) == SplitFrom(s, 1, <<>>)

\* str.strip()
RECURSIVE Strip(_)
Strip(s) ==
    IF s = << >> THEN s
    ELSE IF IsSpace(s[1]) THEN Strip(Tail(s))
    ELSE IF IsSpace(s[Len(s)]) THEN Strip(SubSeq(s, 1, Len(s) - 1))
    ELSE s

\* ' '.join(words)
RECURSIVE JoinSpace(_)
JoinSpace(ws) ==
    IF ws = <<>> THEN <<>>
    ELSE IF Len(ws) = 1 THEN ws[1]
    ELSE ws[1] \o <<" ">> \o JoinSpace(Tail(ws))

(***************************************************************************)
(* _number_to_roman                                                        *)
(***************************************************************************)
val == <<1000, 900, 500, 400, 100, 90, 50, 40, 10, 9, 5, 4, 1>>

syms == << <<"M">>, <<"C", "M">>, <<"D">>, <<"C", "D">>, <<"C">>, <<"X", "C">>,
           <<"L">>, <<"X", "L">>, <<"X">>, <<"I", "X">>, <<"V">>, <<"I", "V">>,
           <<"I">> >>

RECURSIVE RomanFrom(_, _)
RomanFrom(num, i) ==
    IF num <= 0 THEN <<>>
    ELSE IF num >= val[i] THEN syms[i] \o RomanFrom(num - val[i], i)
    ELSE RomanFrom(num, i + 1)

_number_to_roman(num) == RomanFrom(num, 1)

(***************************************************************************)
(* re.sub(r'\b\d+\b', lambda m: _number_to_roman(int(m.group())), query)   *)
(***************************************************************************)
\* last index of the maximal run of digits that starts at i
RECURSIVE DigitRunEnd(_, _)
DigitRunEnd(s, i) ==
    IF i < Len(s) /\ s[i + 1] \in Digits THEN DigitRunEnd(s, i + 1) ELSE i

\* \b before position i and after position j
BoundaryBefore(s, i) == i = 1 \/ ~IsWordChar(s[i - 1])
BoundaryAfter(s, j) == j = Len(s) \/ ~IsWordChar(s[j + 1])

RECURSIVE RomanSubFrom(_, _)
RomanSubFrom(s, i) ==
    IF i > Len(s) THEN <<>>
    ELSE IF s[i] \in Digits /\ BoundaryBefore(s, i)
              /\ BoundaryAfter(s, DigitRunEnd(s, i))
      THEN _number_to_roman(ParseInt(SubSeq(s, i, DigitRunEnd(s, i))))
             \o RomanSubFrom(s, DigitRunEnd(s, i) + 1)
    ELSE IF s[i] \in Digits
      THEN SubSeq(s, i, DigitRunEnd(s, i)) \o RomanSubFrom(s, DigitRunEnd(s, i) + 1)
    ELSE <<s[i]>> \o RomanSubFrom(s, i + 1)

query_no_roman(query) == RomanSubFrom(query, 1)


(***************************************************************************)
(* search_tmdb: cache key, the ladder of searches, the skip test, the      *)
(* record built from the first result                                      *)
(***************************************************************************)
\* str(year) inside the f-string: the digits, or the text None
PyStr(year) == IF year = None THEN <<"N", "o", "n", "e">> ELSE year

\* a cache key that leaves the year out
cache_key_no_year(query, year) == query \o <<":">>

\* cache_key = f"{query}:{year}"
cache_key(query, year) == query \o <<":">> \o PyStr(year)

\* truth value of a str-or-None
Truthy(x) == x # None /\ x # <<>>

\* ' '.join(words[:2])
two_word(query) == JoinSpace(SubSeq(Split(query), 1, 2))

\* the list searches with the search without year put first
searches_year_last(query, year) ==
    << <<query, None>> >>
    \o (IF Truthy(year) THEN << <<query, year>> >> ELSE <<>>)
    \o (IF query_no_roman(query) # query
          THEN << <<query_no_roman(query), year>>, <<query_no_roman(query), None>> >>
          ELSE <<>>)
    \o (IF Len(Split(query)) > 2
          THEN << <<two_word(query), year>>, <<two_word(query), None>> >>
          ELSE <<>>)

\* the list searches, in the order the code appends to it
searches(query, year) ==
    (IF Truthy(year) THEN << <<query, year>> >> ELSE <<>>)
    \o << <<query, None>> >>
    \o (IF query_no_roman(query) # query
          THEN << <<query_no_roman(query), year>>, <<query_no_roman(query), None>> >>
          ELSE <<>>)
    \o (IF Len(Split(query)) > 2
          THEN << <<two_word(query), year>>, <<two_word(query), None>> >>
          ELSE <<>>)

\* if not search_query or search_query.lower() == 'the': continue
Skipped(search_query) ==
    search_query = <<>> \/ Lower(search_query) = <<"t", "h", "e">>

\* index of the first search at or after i that is not skipped
\* (Len + 1 when the for loop runs out)
RECURSIVE NextSearch(_, _)
NextSearch(ss, i) ==
    IF i > Len(ss) THEN i
    ELSE IF Skipped(ss[i][1]) THEN NextSearch(ss, i + 1)
    ELSE i

\* params['year'] is only set when search_year is truthy
ParamYear(search_year) == IF Truthy(search_year) THEN search_year ELSE None

\* result['release_date'][:4] if result.get('release_date') else 'UNKNOWN'
RecordYear(result) ==
    IF Truthy(result.release_date)
      THEN SubSeq(result.release_date, 1,
                  IF Len(result.release_date) < 4 THEN Len(result.release_date) ELSE 4)
      ELSE <<"U", "N", "K", "N", "O", "W", "N">>

\* a record built from the last element of data['results']
tmdb_result_last(results) ==
    [title |-> results[Len(results)].title,
     year |-> RecordYear(results[Len(results)]),
     id |-> results[Len(results)].id]

\* tmdb_result built from data['results'][0]
tmdb_result(results) ==
    [title |-> results[1].title, year |-> RecordYear(results[1]), id |-> results[1].id]

(***************************************************************************)
(* The normalizer of _process_files_thread (lines 713-745): the regular    *)
(* expressions are computed on the characters of the file name             *)
(***************************************************************************)
\* os.path.splitext on a base name: the extension starts at the last dot,
\* unless only dots come before it
splitext(filename) ==
    LET dots == {i \in DOMAIN filename : filename[i] = "."}
        last == IF dots = {} THEN 0
                ELSE CHOOSE i \in dots : \A j \in dots : j <= i
    IN IF last = 0 \/ \A j \in 1 .. last - 1 : filename[j] = "."
         THEN <<filename, << >> >>
         ELSE <<SubSeq(filename, 1, last - 1), SubSeq(filename, last, Len(filename))>>

\* \d{4} at i
Digits4At(s, i) == i + 3 <= Len(s) /\ \A k \in i .. i + 3 : s[k] \in Digits

\* \(\d{4}\) at i
ParenYearEnd(s, i) ==
    IF i + 5 <= Len(s) /\ s[i] = "(" /\ Digits4At(s, i + 1) /\ s[i + 5] = ")"
      THEN i + 5 ELSE 0

\* [._\s-]
IsYearSep(c) == c \in {".", "_", "-"} \/ IsSpace(c)

\* [._\s-]([12]\d{3})[._\s-] at i
BareYearEnd(s, i) ==
    IF i + 5 <= Len(s) /\ IsYearSep(s[i]) /\ s[i + 1] \in {"1", "2"}
         /\ Digits4At(s, i + 1) /\ IsYearSep(s[i + 5])
      THEN i + 5 ELSE 0

\* [\[\{].*?[\]\}] at i: from an opening bracket or brace to the nearest
\* closing one on the same line
BracketEnd(s, i) ==
    IF s[i] \in {"[", "{"}
         /\ \E j \in i + 1 .. Len(s) :
              s[j] \in {"]", "}"} /\ \A k \in i + 1 .. j - 1 : s[k] # "\n"
      THEN CHOOSE j \in i + 1 .. Len(s) :
             /\ s[j] \in {"]", "}"}
             /\ \A k \in i + 1 .. j - 1 : s[k] \notin {"]", "}", "\n"}
      ELSE 0

\* \b between positions i - 1 and i
WordBoundary(s, i) ==
    (i > 1 /\ i - 1 <= Len(s) /\ IsWordChar(s[i - 1]))
      # (i <= Len(s) /\ IsWordChar(s[i]))

\* \b[12]\d{3}\b at i
YearTokenEnd(s, i) ==
    IF s[i] \in {"1", "2"} /\ Digits4At(s, i)
         /\ WordBoundary(s, i) /\ WordBoundary(s, i + 4)
      THEN i + 3 ELSE 0

\* the word w at i, compared with re.IGNORECASE
MatchesAt(s, i, w) ==
    /\ i + Len(w) - 1 <= Len(s)
    /\ \A k \in DOMAIN w : LowerChar(s[i + k - 1]) = LowerChar(w[k])

release_groups ==
    << <<"r", "a", "r", "b", "g">>, <<"a", "n", "o", "X", "m", "o", "u", "s">>, <<"s", "c", "e", "n", "e">>,
       <<"p", "r", "o", "p", "e", "r">>, <<"r", "e", "r", "i", "p">>, <<"r", "e", "m", "u", "x">> >>

\* [\._-](rarbg|...|remux)(?:\.|_|-|$) at i
ReleaseGroupEnd(s, i) ==
    IF s[i] \in {".", "_", "-"}
         /\ \E g \in DOMAIN release_groups :
              /\ MatchesAt(s, i + 1, release_groups[g])
              /\ \/ i + Len(release_groups[g]) = Len(s)
                 \/ s[i + Len(release_groups[g]) + 1] \in {".", "_", "-"}
      THEN LET g == CHOOSE g \in DOMAIN release_groups :
                      /\ MatchesAt(s, i + 1, release_groups[g])
                      /\ \/ i + Len(release_groups[g]) = Len(s)
                         \/ s[i + Len(release_groups[g]) + 1] \in {".", "_", "-"}
           IN IF i + Len(release_groups[g]) < Len(s)
                THEN i + Len(release_groups[g]) + 1
                ELSE i + Len(release_groups[g])
      ELSE 0

\* the alternatives of quality_markers in the order of the pattern, with
\* h\.?264 and the like written out (the dotted form is tried first)
quality_markers ==
    << <<"1", "0", "8", "0", "p">>, <<"7", "2", "0", "p">>,
       <<"4", "8", "0", "p">>, <<"2", "1", "6", "0", "p">>,
       <<"4", "k">>, <<"u", "h", "d">>,
       <<"u", "l", "t", "r", "a", "H", "D">>, <<"U", "l", "t", "r", "a", "H", "D">>,
       <<"b", "l", "u", "r", "a", "y">>, <<"b", "l", "u", "-", "r", "a", "y">>,
       <<"b", "d", "r", "i", "p">>, <<"w", "e", "b", "r", "i", "p">>,
       <<"h", "d", "t", "v">>, <<"d", "v", "d", "r", "i", "p">>,
       <<"h", ".", "2", "6", "4">>, <<"h", "2", "6", "4">>,
       <<"x", ".", "2", "6", "4">>, <<"x", "2", "6", "4">>,
       <<"h", "e", "v", "c">>, <<"h", ".", "2", "6", "5">>,
       <<"h", "2", "6", "5">>, <<"x", ".", "2", "6", "5">>,
       <<"x", "2", "6", "5">>, <<"a", "a", "c">>,
       <<"a", "c", "3">>, <<"d", "t", "s">>,
       <<"a", "m", "d", "6", "4">>, <<"x", "8", "6", "_", "6", "4">>,
       <<"1", "0", "b", "i", "t">>, <<"a", "v", "c">>,
       <<"v", "c", "1">>, <<"m", "p", "e", "g", "2">>,
       <<"a", "i", "f", "f">>, <<"f", "l", "a", "c">>,
       <<"o", "p", "u", "s">>, <<"v", "o", "r", "b", "i", "s">>,
       <<"m", "p", "3">>, <<"e", "a", "c", "3">>,
       <<"t", "r", "u", "e", "h", "d">>, <<"d", "t", "s", "-", "h", "d">>,
       <<"a", "t", "m", "o", "s">>, <<"i", "m", "a", "x">>,
       <<"r", "e", "m", "a", "s", "t", "e", "r", "e", "d">>, <<"e", "x", "t", "e", "n", "d", "e", "d">>,
       <<"d", "i", "r", "e", "c", "t", "o", "r", "s", "c", "u", "t">>, <<"d", "i", "r", "e", "c", "t", "o", "r", "c", "u", "t">>,
       <<"u", "n", "c", "u", "t">>, <<"p", "r", "o", "p", "e", "r">>,
       <<"r", "e", "r", "i", "p">>, <<"r", "e", "m", "u", "x">>,
       <<"p", "d", "t", "v">>, <<"d", "s", "r">>,
       <<"t", "s">>, <<"t", "c">>,
       <<"r", "5">>, <<"d", "v", "d", "s", "c", "r">>,
       <<"b", "r", "r", "i", "p">>, <<"x", "v", "i", "d">>,
       <<"d", "i", "v", "x">>, <<"h", "2", "6", "4">>,
       <<"x", "2", "6", "4">>, <<"w", "e", "b">>,
       <<"w", "e", "b", "-", "d", "l">>, <<"w", "e", "b", "-", "r", "i", "p">> >>

\* \b(1080p|...|web-rip)\b at i: the first alternative that matches and is
\* followed by a word boundary
QualityEnd(s, i) ==
    LET hits == {a \in DOMAIN quality_markers :
                   /\ MatchesAt(s, i, quality_markers[a])
                   /\ WordBoundary(s, i + Len(quality_markers[a]))}
    IN IF WordBoundary(s, i) /\ hits # {}
         THEN i + Len(quality_markers[CHOOSE a \in hits : \A b \in hits : a <= b]) - 1
         ELSE 0

\* [._-]+ at i
RECURSIVE SepRunEnd(_, _)
SepRunEnd(s, i) ==
    IF s[i] \notin {".", "_", "-"} THEN 0
    ELSE IF i < Len(s) /\ s[i + 1] \in {".", "_", "-"} THEN SepRunEnd(s, i + 1)
    ELSE i

\* where the match of a pattern that starts at i ends, 0 when the pattern
\* does not match at i
MatchEnd(pattern, s, i) ==
    CASE pattern = "paren_year" -> ParenYearEnd(s, i)
      [] pattern = "bare_year" -> BareYearEnd(s, i)
      [] pattern = "brackets" -> BracketEnd(s, i)
      [] pattern = "year_token" -> YearTokenEnd(s, i)
      [] pattern = "release_group" -> ReleaseGroupEnd(s, i)
      [] pattern = "quality_markers" -> QualityEnd(s, i)
      [] pattern = "separators" -> SepRunEnd(s, i)

\* re.sub(pattern, repl, s) from position i on: the matches are taken from
\* left to right and do not overlap
RECURSIVE ReSub(_, _, _, _)
ReSub(pattern, repl, s, i) ==
    IF i > Len(s) THEN << >>
    ELSE IF MatchEnd(pattern, s, i) # 0
      THEN repl \o ReSub(pattern, repl, s, MatchEnd(pattern, s, i) + 1)
    ELSE <<s[i]>> \o ReSub(pattern, repl, s, i + 1)

\* re.search: start of the leftmost match, 0 when the pattern matches nowhere
ReSearch(pattern, s) ==
    IF \E i \in DOMAIN s : MatchEnd(pattern, s, i) # 0
      THEN CHOOSE i \in DOMAIN s :
             MatchEnd(pattern, s, i) # 0 /\ \A j \in 1 .. i - 1 : MatchEnd(pattern, s, j) = 0
      ELSE 0

\* a year extraction that prefers the 4-digit year between separators
extract_year_bare_first(name) ==
    IF ReSearch("bare_year", name) # 0
      THEN SubSeq(name, ReSearch("bare_year", name) + 1,
                  ReSearch("bare_year", name) + 4)
    ELSE IF ReSearch("paren_year", name) # 0
      THEN SubSeq(name, ReSearch("paren_year", name) + 1,
                  ReSearch("paren_year", name) + 4)
    ELSE None

\* lines 719-727: the year in parentheses first, else a 4-digit year
\* between separators
extract_year(name) ==
    IF ReSearch("paren_year", name) # 0
      THEN SubSeq(name, ReSearch("paren_year", name) + 1,
                  ReSearch("paren_year", name) + 4)
    ELSE IF ReSearch("bare_year", name) # 0
      THEN SubSeq(name, ReSearch("bare_year", name) + 1,
                  ReSearch("bare_year", name) + 4)
    ELSE None

\* lines 731-745: the cleaning steps, each followed by strip()
clean_name(name) ==
    LET c1 == Strip(ReSub("paren_year", << >>, name, 1))
        c2 == Strip(ReSub("brackets", << >>, c1, 1))
        c3 == Strip(ReSub("year_token", << >>, c2, 1))
        c4 == Strip(ReSub("release_group", <<" ">>, c3, 1))
        c5 == Strip(ReSub("quality_markers", << >>, c4, 1))
        c6 == Strip(ReSub("separators", <<" ">>, c5, 1))
    IN JoinSpace(Split(c6))

\* the file that lines 713-745 hand to search_tmdb for a base name
normalize(filename) ==
    [clean |-> clean_name(splitext(filename)[1]),
     year |-> extract_year(splitext(filename)[1])]


(***************************************************************************)
(* Names and paths of Apply Renaming (build_filename, _process_movies).    *)
(* A path is the sequence of its components.                               *)
(***************************************************************************)
\* re.sub(r'[<>:"/\\|?*]', '', filename).strip()
sanitize_filename(filename) ==
    Strip(SelectSeq(filename,
                    LAMBDA c : c \notin {"<", ">", ":", "\"", "/", "\\", "|", "?", "*"}))

\* build_filename with the naming pattern "{title} ({year})" of line 40
build_filename(tmdb_data, ext) ==
    sanitize_filename(tmdb_data.title) \o <<" ", "(">> \o tmdb_data.year \o <<")">> \o ext

\* os.path.dirname, os.path.basename, os.path.join
dirname(path) == SubSeq(path, 1, Len(path) - 1)
basename(path) == path[Len(path)]
join(dir, name) == Append(dir, name)

\* lines 898-899: the name of the folder of a movie
movie_folder_name(tmdb_data) ==
    sanitize_filename(tmdb_data.title \o <<" ", "(">> \o tmdb_data.year \o <<")">>)

\* lines 892-901
new_folder(item) == join(dirname(dirname(item.filepath)), movie_folder_name(item.tmdb_data))
new_filepath(item) == join(new_folder(item), item.new_name)

\* os.path.exists
path_exists(disk, path) == path \in disk.dirs \cup disk.files

\* path is old or lies below it
Below(path, old) == Len(path) >= Len(old) /\ SubSeq(path, 1, Len(old)) = old

\* a path after old has been renamed to new
Moved(path, old, new) ==
    IF Below(path, old) THEN new \o SubSeq(path, Len(old) + 1, Len(path)) ELSE path

\* os.rename(old, new) that succeeds, on a directory or a file; a file that
\* was at new is replaced
os_rename(disk, old, new) ==
    [dirs |-> {Moved(d, old, new) : d \in disk.dirs},
     files |-> {Moved(f, old, new) : f \in disk.files}]

\* shutil.copy2(src, dst) that succeeds
copy2(disk, src, dst) == [disk EXCEPT !.files = @ \cup {dst}]

\* os.remove(path) that succeeds
os_remove(disk, path) == [disk EXCEPT !.files = @ \ {path}]

(***************************************************************************)
(* Inputs: clean titles and years as the normalizer hands them to          *)
(* search_tmdb, the API keys and languages of the settings dialog, and     *)
(* the answers of the provider                                             *)
(***************************************************************************)
T_Matrix == <<"T", "h", "e", " ", "M", "a", "t", "r", "i", "x">>
T_The == <<"T", "h", "e">>
T_Rocky2 == <<"R", "o", "c", "k", "y", " ", "2">>
T_The0 == <<"T", "h", "e", " ", "0">>
T_Toy3 == <<"T", "o", "y", " ", "S", "t", "o", "r", "y", " ", "3">>

Y1999 == <<"1", "9", "9", "9">>
Y2010 == <<"2", "0", "1", "0">>

\* file names found in the wild, among them the examples of the design
F_MatrixRelease == <<"T", "h", "e", ".", "M", "a", "t", "r", "i", "x", ".", "1", "9", "9", "9", ".", "1", "0", "8", "0", "p", ".", "B", "l", "u", "R", "a", "y", ".", "x", "2", "6", "4", "-", "G", "R", "O", "U", "P", ".", "m", "k", "v">>
F_Se7en == <<"S", "e", "7", "e", "n", " ", "[", "1", "9", "9", "5", "]", " ", "{", "c", "d", "1", "}", ".", "a", "v", "i">>
F_RockyII == <<"R", "o", "c", "k", "y", ".", "I", "I", ".", "1", "9", "7", "9", ".", "D", "V", "D", "R", "i", "p", ".", "a", "v", "i">>
F_TwoYears == <<"B", "l", "a", "d", "e", ".", "R", "u", "n", "n", "e", "r", ".", "2", "0", "4", "9", ".", "(", "2", "0", "1", "7", ")", ".", "m", "k", "v">>
F_Underscores == <<"M", "o", "v", "i", "e", "_", "1", "9", "9", "9", "_", "7", "2", "0", "p", ".", "m", "k", "v">>

\* one file of a batch, given by what lines 713-745 compute from its name
File(clean, year) == [clean |-> clean, year |-> year]

\* the sessions explored: the folder the batches take their files from, the
\* API key the program is started with, and what the user does besides
\* starting one batch after the other ("overlap": a batch is started while
\* another is running)
Session(folder, keys, user) == [folder |-> folder, keys |-> keys, user |-> user]

Sessions ==
    { Session({File(T_Matrix, Y1999), File(T_Matrix, None)}, {"", "k1"},
              {"settings", "language", "clear"}),
      Session({File(T_The, None), File(T_The0, Y1999), File(T_Toy3, Y2010)}, {"k1"}, {}),
      Session({File(T_Rocky2, None), normalize(F_RockyII)}, {"k1"}, {}),
      Session({File(T_Matrix, Y1999)}, {"k1"}, {"override", "clear"}),
      Session({File(T_Matrix, Y1999)}, {"k1"}, {"overlap"}) }

Files == UNION {s.folder : s \in Sessions}

ApiKeys == {"", "k1"}
Languages == {"en", "fr"}

Movie1 == [title |-> "The Matrix", id |-> 603,
           release_date |-> <<"1", "9", "9", "9", "-", "0", "3", "-", "3", "0">>]
Movie2 == [title |-> "Rocky II", id |-> 1367, release_date |-> None]
Movie3 == [title |-> "Se7en", id |-> 807, release_date |-> << >>]

\* data['results'] of a response that arrived with status 200
ResultLists == { <<>>, <<Movie1>>, <<Movie2, Movie1>>, <<Movie3>> }

\* requests.exceptions.Timeout, ConnectionError, and the HTTPError of
\* raise_for_status()
Failures == {"Timeout", "ConnectionError", "HTTPError"}

\* the pieces that file names are put together from
Tokens ==
    { <<"U", "p">>, <<"1", "9", "9", "9">>, <<"(", "2", "0", "0", "1", ")">>,
      <<"[", "1", "9", "9", "5", "]">>, <<"7", "2", "0", "p">>, <<".">>, <<"_">>, <<"-">>, <<" ">> }

RECURSIVE Concat(_)
Concat(ws) == IF ws = << >> THEN << >> ELSE ws[1] \o Concat(Tail(ws))

\* os.path.basename(filepath) of the files the normalizer is run on
FileNames ==
    {Concat(ws) \o <<".", "m", "k", "v">> :
       ws \in UNION {[1 .. n -> Tokens] : n \in 1 .. MaxTokens}}
    \cup {F_MatrixRelease, F_Se7en, F_RockyII, F_TwoYears, F_Underscores}

\* the records of the preview that Apply Renaming works on
A_Matrix == [title |-> <<"T", "h", "e", " ", "M", "a", "t", "r", "i", "x">>, year |-> Y1999, id |-> 603]
A_MI == [title |-> <<"M", ":", "I">>, year |-> <<"U", "N", "K", "N", "O", "W", "N">>, id |-> 954]

\* the video files of the library: two in one folder, one in another
Library == <<"l", "i", "b">>
SourceFiles ==
    { <<Library, <<"a">>, <<"x", ".", "m", "k", "v">>>>, <<Library, <<"a">>, <<"y", ".", "m", "k", "v">>>>,
      <<Library, <<"b">>, <<"z", ".", "a", "v", "i">>>> }

\* lines 754-759: the preview entry of a file, found or not found
PreviewItem(filepath, tmdb_data) ==
    [filepath |-> filepath,
     new_name |-> build_filename(tmdb_data, splitext(basename(filepath))[2]),
     tmdb_data |-> tmdb_data, status |-> "found"]

NotFoundItem(filepath) ==
    [filepath |-> filepath, new_name |-> basename(filepath),
     tmdb_data |-> [title |-> "NOT FOUND", year |-> << >>], status |-> "not_found"]

PreviewItems ==
    {PreviewItem(f, m) : f \in SourceFiles, m \in {A_Matrix, A_MI}}
    \cup {NotFoundItem(f) : f \in SourceFiles}

\* the previews a batch can leave: one entry per file
Previews ==
    {pv \in UNION {[1 .. n -> PreviewItems] : n \in 1 .. MaxItems} :
       \A i, j \in DOMAIN pv : i # j => pv[i].filepath # pv[j].filepath}

\* the library when Apply Renaming is pressed: a file of the preview may be
\* gone since, and the folder of a movie may be there already
Disks ==
    {[dirs |-> {<<Library>>, <<Library, <<"a">> >>, <<Library, <<"b">> >>} \cup extra,
      files |-> SourceFiles \ gone] :
       extra \in {{}, {<<Library, movie_folder_name(A_Matrix)>>}},
       gone \in {{}, {<<Library, <<"a">>, <<"x", ".", "m", "k", "v">>>>}}}

\* how a call of the operating system ends
Outcomes == {"ok", "PermissionError", "OSError"}

Threads == 1 .. MaxThreads


(***************************************************************************)
(* State                                                                   *)
(***************************************************************************)
VARIABLES
    api_key,         \* self.api_key
    language,        \* self.language
    tmdb_cache,      \* self.tmdb_cache: cache key -> record
    preview_data,    \* self.preview_data
    thr,             \* the threads started by process_files
    ui,              \* the Tk main thread: idle, or blocked in the override request
    override_window, \* the result list shown by show_tmdb_override, if open
    session,         \* the session being explored
    handed,          \* number of files handed to process_files so far
    log,             \* per thread, the requests of its current search_tmdb call
    why,             \* per thread, how its last search_tmdb call ended
    entered,         \* per thread, what held when its call was entered
    found,           \* <<query, year, record>> of the calls that got a hit
    exhausted,       \* <<query, year>> of the calls whose ladder ran out
    asked,           \* <<query, year, record, language>>: the language of the
                     \* request that a hit got its record from
    nz,              \* the locals of lines 713-745 for the file being normalized
    fs,              \* the directories and files on disk
    processing,      \* self.processing
    ap,              \* the thread of _process_movies: its locals
    done             \* per item that _process_movies has handled, how it ended

prog == <<api_key, language, tmdb_cache, preview_data, thr, ui, override_window>>
env == <<session, handed>>
hist == <<log, why, entered, found, exhausted, asked>>
norm == <<nz>>
appl == <<fs, processing, ap, done>>

vars == <<prog, env, hist, norm, appl>>

NoWindow == [open |-> FALSE]

IdleThread ==
    [pc |-> "off", left |-> 0, file |-> File(<< >>, None), si |-> 0,
     result |-> NoResult]

NotEntered == [api_key |-> "", repeat |-> FALSE, had_record |-> FALSE]

\* the locals of the normalizer before a file name is taken up
Unnamed(filename) ==
    [pc |-> "basename", filename |-> filename, name |-> << >>, ext |-> << >>,
     year |-> None, clean_name |-> << >>]

\* the locals of _process_movies before Apply Renaming is pressed
NotApplying == [pc |-> "off", processable |-> << >>, i |-> 0, success |-> 0, failed |-> << >>]

NoDisk == [dirs |-> {}, files |-> {}]

Init ==
    /\ session \in Sessions
    /\ nz = Unnamed(<< >>)
    /\ fs = NoDisk
    /\ processing = FALSE
    /\ ap = NotApplying
    /\ done = << >>
    /\ api_key \in session.keys
    /\ language = "en"
    /\ tmdb_cache = << >>
    /\ preview_data = << >>
    /\ thr = [t \in Threads |-> IdleThread]
    /\ ui = [pc |-> "idle", index |-> 0]
    /\ override_window = NoWindow
    /\ handed = 0
    /\ log = [t \in Threads |-> << >>]
    /\ why = [t \in Threads |-> "none"]
    /\ entered = [t \in Threads |-> NotEntered]
    /\ found = {}
    /\ exhausted = {}
    /\ asked = {}

\* dict assignment d[k] = v
DictPut(d, k, v) == [x \in DOMAIN d \cup {k} |-> IF x = k THEN v ELSE d[x]]

\* requests in flight: one per thread blocked in requests.get
InFlight ==
    Cardinality({t \in Threads : thr[t].pc = "wait"})
      + (IF ui.pc = "override_wait" THEN 1 ELSE 0)

\* threads inside _process_files_thread
Running == {t \in Threads : thr[t].pc # "off"}

\* the (query, year) pairs that a call has resolved to a record
Hit == {<<f[1], f[2]>> : f \in found}

\* the (query, year) pairs that a call has resolved, to a record or to not found
Resolved == Hit \cup exhausted

(***************************************************************************)
(* UI handlers (Tk main thread)                                            *)
(***************************************************************************)
\* browse_files, browse_folder, on_drop -> process_files: a new thread is
\* started on a list of n files, whatever the other threads are doing; the
\* user of a session without "overlap" waits for a batch to end before
\* starting the next
process_files(t, n) ==
    /\ ui.pc = "idle"
    /\ handed + n <= MaxTotal
    /\ "overlap" \in session.user \/ Running = {}
    /\ thr[t].pc = "off"
    /\ \A u \in Threads : u < t => thr[u].pc # "off"
    /\ thr' = [thr EXCEPT ![t] = [IdleThread EXCEPT !.pc = "begin", !.left = n]]
    /\ handed' = handed + n
    /\ UNCHANGED <<api_key, language, tmdb_cache, preview_data, ui, override_window>>
    /\ UNCHANGED <<session, norm, appl>>
    /\ UNCHANGED hist

\* the Save button of the settings dialog: the key is assigned before it
\* is tested for emptiness
save_settings(key) ==
    /\ ui.pc = "idle"
    /\ "settings" \in session.user
    /\ key # api_key
    /\ api_key' = key
    /\ UNCHANGED <<language, tmdb_cache, preview_data, thr, ui, override_window>>
    /\ UNCHANGED <<env, norm, appl>>
    /\ UNCHANGED hist

\* the language combobox of the settings dialog, bound to self.language
set_language(lang) ==
    /\ ui.pc = "idle"
    /\ "language" \in session.user
    /\ lang # language
    /\ language' = lang
    /\ UNCHANGED <<api_key, tmdb_cache, preview_data, thr, ui, override_window>>
    /\ UNCHANGED <<env, norm, appl>>
    /\ UNCHANGED hist

\* the Clear button
clear ==
    /\ ui.pc = "idle"
    /\ "clear" \in session.user
    /\ preview_data # << >>
    /\ preview_data' = << >>
    /\ UNCHANGED <<api_key, language, tmdb_cache, thr, ui, override_window>>
    /\ UNCHANGED <<env, norm, appl>>
    /\ UNCHANGED hist

\* show_tmdb_override up to requests.get: the main thread sends one request
override_send(i) ==
    /\ ui.pc = "idle"
    /\ "override" \in session.user
    /\ override_window = NoWindow
    /\ i \in DOMAIN preview_data
    /\ ui' = [pc |-> "override_wait", index |-> i]
    /\ UNCHANGED <<api_key, language, tmdb_cache, preview_data, thr, override_window>>
    /\ UNCHANGED <<env, norm, appl>>
    /\ UNCHANGED hist

\* show_tmdb_override after requests.get: an exception or an empty list
\* ends it with a message box, otherwise the result window opens
override_receive(failed, results) ==
    /\ ui.pc = "override_wait"
    /\ ui' = [pc |-> "idle", index |-> 0]
    /\ override_window' =
         IF failed \/ results = << >> THEN NoWindow
         ELSE [open |-> TRUE, index |-> ui.index, results |-> results]
    /\ UNCHANGED <<api_key, language, tmdb_cache, preview_data, thr>>
    /\ UNCHANGED <<env, norm, appl>>
    /\ UNCHANGED hist

\* on_select: the chosen result replaces the preview entry and the window
\* closes; an index that is gone raises IndexError inside the callback
on_select(pick) ==
    /\ ui.pc = "idle"
    /\ override_window.open
    /\ pick \in DOMAIN override_window.results
    /\ override_window.index \in DOMAIN preview_data
    /\ preview_data' =
         [preview_data EXCEPT ![override_window.index] =
            [@ EXCEPT !.tmdb_result =
                         [title |-> override_window.results[pick].title,
                          year |-> RecordYear(override_window.results[pick]),
                          id |-> override_window.results[pick].id],
                      !.status = "found"]]
    /\ override_window' = NoWindow
    /\ UNCHANGED <<api_key, language, tmdb_cache, thr, ui>>
    /\ UNCHANGED <<env, norm, appl>>
    /\ UNCHANGED hist

\* closing the result window without a choice
override_close ==
    /\ ui.pc = "idle"
    /\ override_window.open
    /\ override_window' = NoWindow
    /\ UNCHANGED <<api_key, language, tmdb_cache, preview_data, thr, ui>>
    /\ UNCHANGED <<env, norm, appl>>
    /\ UNCHANGED hist

(***************************************************************************)
(* _process_files_thread and search_tmdb, one step per access to the       *)
(* shared state or to the network                                          *)
(***************************************************************************)
\* lines 698-704: the thread empties the preview
batch_begin(t) ==
    /\ thr[t].pc = "begin"
    /\ preview_data' = << >>
    /\ thr' = [thr EXCEPT ![t].pc = "loop"]
    /\ UNCHANGED <<api_key, language, tmdb_cache, ui, override_window>>
    /\ UNCHANGED <<env, norm, appl>>
    /\ UNCHANGED hist

\* search_tmdb returns result to the batch loop; the history keeps how
Return(t, file, reason, result) ==
    /\ thr' = [thr EXCEPT ![t].pc = "record", ![t].file = file, ![t].result = result]
    /\ why' = [why EXCEPT ![t] = reason]
    /\ exhausted' = IF reason = "exhausted"
                      THEN exhausted \cup {<<file.clean, file.year>>}
                      ELSE exhausted
    /\ found' = IF reason = "hit"
                  THEN found \cup {<<file.clean, file.year, result>>}
                  ELSE found
    /\ asked' = IF reason = "hit"
                  THEN asked \cup {<<file.clean, file.year, result,
                                     log[t][Len(log[t])].language>>}
                  ELSE asked

\* the for loop, storing None in the cache when the list runs out
Ladder_caches_none(t, file, i, sent) ==
    LET ss == searches(file.clean, file.year)
        n == NextSearch(ss, i)
    IN IF n > Len(ss)
         THEN /\ Return(t, file, "exhausted", NoResult)
              /\ log' = [log EXCEPT ![t] = sent]
              /\ tmdb_cache' = DictPut(tmdb_cache, cache_key(file.clean, file.year),
                                        NoResult)
         ELSE /\ thr' = [thr EXCEPT ![t].pc = "wait", ![t].file = file, ![t].si = n]
              /\ log' = [log EXCEPT ![t] =
                           Append(sent, [query |-> ss[n][1],
                                         year |-> ParamYear(ss[n][2]),
                                         language |-> language,
                                         answer |-> "pending",
                                         results |-> << >>])]
              /\ UNCHANGED <<tmdb_cache, why, found, exhausted, asked>>

\* lines 811-826: the for loop from search number i up to requests.get;
\* skipped searches are passed over, and when the list runs out the call
\* returns None
Ladder(t, file, i, sent) ==
    LET ss == searches(file.clean, file.year)
        n == NextSearch(ss, i)
    IN IF n > Len(ss)
         THEN /\ Return(t, file, "exhausted", NoResult)
              /\ log' = [log EXCEPT ![t] = sent]
              /\ UNCHANGED tmdb_cache
         ELSE /\ thr' = [thr EXCEPT ![t].pc = "wait", ![t].file = file, ![t].si = n]
              /\ log' = [log EXCEPT ![t] =
                           Append(sent, [query |-> ss[n][1],
                                         year |-> ParamYear(ss[n][2]),
                                         language |-> language,
                                         answer |-> "pending",
                                         results |-> << >>])]
              /\ UNCHANGED <<tmdb_cache, why, found, exhausted, asked>>

\* lines 775-808: search_tmdb up to the for loop; a cached key returns the
\* cached record, a missing API key raises into 'except Exception' and
\* returns None, otherwise the searches are built and tried
search_tmdb(t, file) ==
    /\ entered' = [entered EXCEPT ![t] =
                     [api_key |-> api_key,
                      repeat |-> <<file.clean, file.year>> \in Resolved,
                      had_record |-> <<file.clean, file.year>> \in Hit]]
    /\ IF cache_key(file.clean, file.year) \in DOMAIN tmdb_cache
         THEN /\ Return(t, file, "cached", tmdb_cache[cache_key(file.clean, file.year)])
              /\ log' = [log EXCEPT ![t] = << >>]
              /\ UNCHANGED tmdb_cache
         ELSE IF api_key = ""
           THEN /\ Return(t, file, "nokey", NoResult)
                /\ log' = [log EXCEPT ![t] = << >>]
                /\ UNCHANGED tmdb_cache
           ELSE Ladder(t, file, 1, << >>)

\* lines 706-752: the loop takes the next file of its list; a path that no
\* longer exists is skipped, otherwise search_tmdb is called on the clean
\* name and year of the file
batch_next(t, exists, file) ==
    /\ thr[t].pc = "loop"
    /\ IF thr[t].left = 0
         THEN /\ thr' = [thr EXCEPT ![t] = IdleThread]
              /\ UNCHANGED <<tmdb_cache, hist>>
         ELSE IF ~exists
           THEN /\ thr' = [thr EXCEPT ![t].left = @ - 1]
                /\ UNCHANGED <<tmdb_cache, hist>>
           ELSE search_tmdb(t, file)
    /\ UNCHANGED <<api_key, language, preview_data, ui, override_window>>
    /\ UNCHANGED <<env, norm, appl>>

\* the log of thread t once its pending request has got its answer
Answered(t, answer, results) ==
    [log[t] EXCEPT ![Len(log[t])].answer = answer, ![Len(log[t])].results = results]

\* a failed request that lets the loop go on with the next search
search_fail_continue(t, failure) ==
    /\ thr[t].pc = "wait"
    /\ Ladder(t, thr[t].file, thr[t].si + 1, Answered(t, failure, << >>))
    /\ UNCHANGED <<api_key, language, preview_data, ui, override_window>>
    /\ UNCHANGED <<env, norm, appl>>
    /\ UNCHANGED entered

\* lines 826-827, 847-854: requests.get or raise_for_status raises; the
\* handlers show or print a message and the call returns None
search_fail(t, failure) ==
    /\ thr[t].pc = "wait"
    /\ Return(t, thr[t].file, failure, NoResult)
    /\ log' = [log EXCEPT ![t] = Answered(t, failure, << >>)]
    /\ UNCHANGED <<api_key, language, tmdb_cache, preview_data, ui, override_window>>
    /\ UNCHANGED <<env, norm, appl>>
    /\ UNCHANGED entered

\* a response whose non-empty list does not end the loop
search_receive_continue(t, results) ==
    /\ thr[t].pc = "wait"
    /\ Ladder(t, thr[t].file, thr[t].si + 1,
              Answered(t, IF results # << >> THEN "results" ELSE "empty", results))
    /\ UNCHANGED <<api_key, language, preview_data, ui, override_window>>
    /\ UNCHANGED <<env, norm, appl>>
    /\ UNCHANGED entered

\* a response whose record is cached under the key of the search that got it
search_receive_variant_key(t, results) ==
    /\ thr[t].pc = "wait"
    /\ IF results # << >>
         THEN /\ tmdb_cache' = DictPut(tmdb_cache,
                                       cache_key(log[t][Len(log[t])].query,
                                                 log[t][Len(log[t])].year),
                                       tmdb_result(results))
              /\ Return(t, thr[t].file, "hit", tmdb_result(results))
              /\ log' = [log EXCEPT ![t] = Answered(t, "results", results)]
         ELSE Ladder(t, thr[t].file, thr[t].si + 1, Answered(t, "empty", << >>))
    /\ UNCHANGED <<api_key, language, preview_data, ui, override_window>>
    /\ UNCHANGED <<env, norm, appl>>
    /\ UNCHANGED entered

\* lines 828-843: the response; a non-empty list is cached under cache_key
\* and returned, an empty one moves to the next search
search_receive(t, results) ==
    /\ thr[t].pc = "wait"
    /\ IF results # << >>
         THEN /\ tmdb_cache' = DictPut(tmdb_cache,
                                       cache_key(thr[t].file.clean, thr[t].file.year),
                                       tmdb_result(results))
              /\ Return(t, thr[t].file, "hit", tmdb_result(results))
              /\ log' = [log EXCEPT ![t] = Answered(t, "results", results)]
         ELSE Ladder(t, thr[t].file, thr[t].si + 1, Answered(t, "empty", << >>))
    /\ UNCHANGED <<api_key, language, preview_data, ui, override_window>>
    /\ UNCHANGED <<env, norm, appl>>
    /\ UNCHANGED entered

\* lines 754-768: the result is entered in the preview
batch_record(t) ==
    /\ thr[t].pc = "record"
    /\ preview_data' =
         Append(preview_data,
                IF thr[t].result # NoResult
                  THEN [file |-> thr[t].file,
                        tmdb_result |-> thr[t].result, status |-> "found"]
                  ELSE [file |-> thr[t].file,
                        tmdb_result |-> [title |-> "NOT FOUND", year |-> << >>],
                        status |-> "not_found"])
    /\ thr' = [thr EXCEPT ![t].pc = "loop", ![t].left = @ - 1]
    /\ log' = [log EXCEPT ![t] = << >>]
    /\ why' = [why EXCEPT ![t] = "none"]
    /\ entered' = [entered EXCEPT ![t] = NotEntered]
    /\ UNCHANGED <<api_key, language, tmdb_cache, ui, override_window>>
    /\ UNCHANGED <<env, norm, appl>>
    /\ UNCHANGED <<found, exhausted, asked>>

Next ==
    \/ \E t \in Threads, n \in 1 .. MaxFiles : process_files(t, n)
    \/ \E key \in ApiKeys : save_settings(key)
    \/ \E lang \in Languages : set_language(lang)
    \/ clear
    \/ \E i \in 1 .. MaxTotal : override_send(i)
    \/ \E failed \in BOOLEAN, results \in ResultLists : override_receive(failed, results)
    \/ \E pick \in 1 .. 2 : on_select(pick)
    \/ override_close
    \/ \E t \in Threads : batch_begin(t)
    \/ \E t \in Threads, exists \in BOOLEAN, file \in session.folder : batch_next(t, exists, file)
    \/ \E t \in Threads, failure \in Failures : search_fail(t, failure)
    \/ \E t \in Threads, results \in ResultLists : search_receive(t, results)
    \/ \E t \in Threads : batch_record(t)

Spec == Init /\ [][Next]_vars

(***************************************************************************)
(* The normalizer on its own: lines 713-745 run on one file name           *)
(***************************************************************************)
\* a session in which no batch is started
NoSession == Session({}, {""}, {})

InitNorm ==
    /\ session = NoSession
    /\ api_key = ""
    /\ language = "en"
    /\ tmdb_cache = << >>
    /\ preview_data = << >>
    /\ thr = [t \in Threads |-> IdleThread]
    /\ ui = [pc |-> "idle", index |-> 0]
    /\ override_window = NoWindow
    /\ handed = 0
    /\ log = [t \in Threads |-> << >>]
    /\ why = [t \in Threads |-> "none"]
    /\ entered = [t \in Threads |-> NotEntered]
    /\ found = {}
    /\ exhausted = {}
    /\ asked = {}
    /\ nz \in {Unnamed(f) : f \in FileNames}
    /\ fs = NoDisk
    /\ processing = FALSE
    /\ ap = NotApplying
    /\ done = << >>

\* line 714: name, ext = os.path.splitext(filename)
norm_splitext ==
    /\ nz.pc = "basename"
    /\ nz' = [nz EXCEPT !.pc = "year", !.name = splitext(nz.filename)[1],
                        !.ext = splitext(nz.filename)[2]]
    /\ UNCHANGED <<prog, env, hist, appl>>

\* lines 719-727: the year
norm_year ==
    /\ nz.pc = "year"
    /\ nz' = [nz EXCEPT !.pc = "clean", !.year = extract_year(nz.name)]
    /\ UNCHANGED <<prog, env, hist, appl>>

\* lines 731-745: the clean name
norm_clean ==
    /\ nz.pc = "clean"
    /\ nz' = [nz EXCEPT !.pc = "search", !.clean_name = clean_name(nz.name)]
    /\ UNCHANGED <<prog, env, hist, appl>>

NextNorm ==
    \/ norm_splitext
    \/ norm_year
    \/ norm_clean

SpecNorm == InitNorm /\ [][NextNorm]_vars

(***************************************************************************)
(* Apply Renaming: apply and the thread of _process_movies, started on a   *)
(* preview that a batch has left                                           *)
(***************************************************************************)
InitApply ==
    /\ session = NoSession
    /\ api_key = ""
    /\ language = "en"
    /\ tmdb_cache = << >>
    /\ preview_data \in Previews
    /\ thr = [t \in Threads |-> IdleThread]
    /\ ui = [pc |-> "idle", index |-> 0]
    /\ override_window = NoWindow
    /\ handed = 0
    /\ log = [t \in Threads |-> << >>]
    /\ why = [t \in Threads |-> "none"]
    /\ entered = [t \in Threads |-> NotEntered]
    /\ found = {}
    /\ exhausted = {}
    /\ asked = {}
    /\ nz = Unnamed(<< >>)
    /\ fs \in Disks
    /\ processing = FALSE
    /\ ap = NotApplying
    /\ done = << >>

\* lines 869-876: the Apply Renaming button, confirmed by the user
apply ==
    /\ ui.pc = "idle"
    /\ ap.pc = "off"
    /\ preview_data # << >>
    /\ ap' = [ap EXCEPT !.pc = "begin"]
    /\ UNCHANGED <<prog, env, hist, norm, fs, processing, done>>

\* lines 879-888: the found entries of the preview are taken
process_movies_begin ==
    /\ ap.pc = "begin"
    /\ processing' = TRUE
    /\ ap' = [pc |-> "loop",
              processable |-> SelectSeq(preview_data, LAMBDA p : p.status = "found"),
              i |-> 0, success |-> 0, failed |-> << >>]
    /\ UNCHANGED <<prog, env, hist, norm, fs, done>>

\* lines 903-914: the folder of the file is renamed to the folder of the
\* movie unless that one is there already; rename is how os.rename ends
RenameFolder(disk, item, rename) ==
    IF dirname(item.filepath) # new_folder(item) /\ ~path_exists(disk, new_folder(item))
      THEN IF ~path_exists(disk, dirname(item.filepath))
             THEN [raised |-> "OSError", disk |-> disk]
           ELSE IF rename = "ok"
             THEN [raised |-> "none",
                   disk |-> os_rename(disk, dirname(item.filepath), new_folder(item))]
           ELSE [raised |-> rename, disk |-> disk]
      ELSE [raised |-> "none", disk |-> disk]

\* lines 916-939: the file is renamed inside the folder of the movie if it
\* is found there under its old name; after a PermissionError it is copied
\* and the original removed
RenameFile(disk, item, rename, copy, remove) ==
    LET current_filepath == join(new_folder(item), basename(item.filepath))
    IN IF /\ path_exists(disk, new_folder(item))
          /\ path_exists(disk, current_filepath)
          /\ current_filepath # new_filepath(item)
         THEN IF rename = "ok"
                THEN [raised |-> "none",
                      disk |-> os_rename(disk, current_filepath, new_filepath(item))]
              ELSE IF rename = "PermissionError"
                THEN IF copy # "ok"
                       THEN [raised |-> "PermissionError", disk |-> disk]
                     ELSE IF remove # "ok"
                       THEN [raised |-> "PermissionError",
                             disk |-> copy2(disk, current_filepath, new_filepath(item))]
                     ELSE [raised |-> "none",
                           disk |-> os_remove(copy2(disk, current_filepath,
                                                    new_filepath(item)),
                                              current_filepath)]
              ELSE [raised |-> "OSError", disk |-> disk]
         ELSE [raised |-> "none", disk |-> disk]

\* one pass of the loop that stops at the first failure
process_movie_abort(folder, rename, copy, remove) ==
    /\ ap.pc = "loop"
    /\ ap.i < Len(ap.processable)
    /\ LET item == ap.processable[ap.i + 1]
           r1 == RenameFolder(fs, item, folder)
           r == IF r1.raised = "none"
                  THEN RenameFile(r1.disk, item, rename, copy, remove)
                  ELSE r1
       IN /\ fs' = r.disk
          /\ ap' = IF r.raised = "none"
                     THEN [ap EXCEPT !.i = @ + 1, !.success = @ + 1]
                     ELSE [ap EXCEPT !.i = Len(ap.processable),
                                     !.failed = Append(@, [name |-> item.new_name,
                                                           error |-> r.raised])]
          /\ done' = Append(done,
                            [item |-> item,
                             counted |-> IF r.raised = "none" THEN "success" ELSE "failed",
                             at_target |-> new_filepath(item) \in r.disk.files])
    /\ UNCHANGED <<prog, env, hist, norm, processing>>

\* lines 890-956: one pass of the loop; an exception of the pass is caught
\* and entered in failed, otherwise the item is counted as a success
process_movie(folder, rename, copy, remove) ==
    /\ ap.pc = "loop"
    /\ ap.i < Len(ap.processable)
    /\ LET item == ap.processable[ap.i + 1]
           r1 == RenameFolder(fs, item, folder)
           r == IF r1.raised = "none"
                  THEN RenameFile(r1.disk, item, rename, copy, remove)
                  ELSE r1
       IN /\ fs' = r.disk
          /\ ap' = IF r.raised = "none"
                     THEN [ap EXCEPT !.i = @ + 1, !.success = @ + 1]
                     ELSE [ap EXCEPT !.i = @ + 1,
                                     !.failed = Append(@, [name |-> item.new_name,
                                                           error |-> r.raised])]
          /\ done' = Append(done,
                            [item |-> item,
                             counted |-> IF r.raised = "none" THEN "success" ELSE "failed",
                             at_target |-> new_filepath(item) \in r.disk.files])
    /\ UNCHANGED <<prog, env, hist, norm, processing>>

\* lines 958-966: the report, then self.clear()
process_movies_end ==
    /\ ap.pc = "loop"
    /\ ap.i = Len(ap.processable)
    /\ processing' = FALSE
    /\ preview_data' = << >>
    /\ ap' = [ap EXCEPT !.pc = "done"]
    /\ UNCHANGED <<api_key, language, tmdb_cache, thr, ui, override_window>>
    /\ UNCHANGED <<env, hist, norm, fs, done>>

NextApply ==
    \/ apply
    \/ process_movies_begin
    \/ \E folder \in Outcomes, rename \in Outcomes, copy \in Outcomes, remove \in Outcomes :
          process_movie(folder, rename, copy, remove)
    \/ process_movies_end

SpecApply == InitApply /\ [][NextApply]_vars

TypeOK ==
    /\ api_key \in ApiKeys
    /\ language \in Languages
    /\ handed \in 0 .. MaxTotal


(***************************************************************************)
(* Properties                                                              *)
(***************************************************************************)
\* the searches of a file that the loop does not skip
Unskipped(file) ==
    SelectSeq(searches(file.clean, file.year), LAMBDA s : ~Skipped(s[1]))

\* threads whose search_tmdb call has started and has not been recorded yet
InCall == {t \in Threads : thr[t].pc \in {"wait", "record"}}

\* the records that can be built from a non-empty result list
RealRecords == {tmdb_result(r) : r \in ResultLists \ { << >> }}

NetFailures == {"Timeout", "ConnectionError"}

\* C1 as stated: resolving the same (clean title, year) twice sends exactly
\* one provider request in total - the first call sends one request and a
\* call on a pair that was resolved before sends none.
C1_OneRequestInTotal ==
    \A t \in InCall :
        Len(log[t]) + (IF entered[t].repeat THEN 1 ELSE 0) <= 1

\* C1 amended: a call on a (clean title, year) that an earlier call resolved
\* to a record sends no provider request and returns a record cached for
\* that same pair; a call is answered from the cache only in that case.
C1_CachedPairSendsNothing ==
    \A t \in InCall :
        /\ entered[t].had_record => why[t] = "cached"
        /\ why[t] = "cached" =>
             /\ log[t] = << >>
             /\ <<thr[t].file.clean, thr[t].file.year, thr[t].result>> \in found

C1_Witness ==
    \E t \in Threads :
        thr[t].pc = "record" /\ why[t] = "cached" /\ entered[t].had_record

\* C2: within one call, a request answered with a non-empty result list is
\* the last request of the call, and the call returns the record built from
\* that list.
C2_ShortCircuit ==
    \A t \in Threads : \A i \in DOMAIN log[t] :
        log[t][i].answer = "results" =>
            /\ i = Len(log[t])
            /\ thr[t].pc = "record"
            /\ thr[t].result.title = log[t][i].results[1].title
            /\ thr[t].result.id = log[t][i].results[1].id

C2_Witness ==
    \E t \in Threads :
        /\ thr[t].pc = "record" /\ why[t] = "hit"
        /\ Len(log[t]) < Len(Unskipped(thr[t].file))

\* C3: no cache value is the not-found outcome - every value is a record
\* built from a provider result - and a call on a pair whose ladder ran out
\* before (and that no call has resolved to a record) goes to the provider
\* again and returns the record when the provider now has results.
C3_NotFoundNeverCached ==
    /\ \A k \in DOMAIN tmdb_cache : tmdb_cache[k] \in RealRecords
    /\ \A t \in InCall :
         (entered[t].repeat /\ ~entered[t].had_record /\ entered[t].api_key # "") =>
            /\ why[t] # "cached"
            /\ log[t] # << >> \/ Unskipped(thr[t].file) = << >>
            /\ (log[t] # << >> /\ log[t][Len(log[t])].answer = "results") =>
                 thr[t].result \in RealRecords

C3_Witness ==
    \E t \in Threads :
        /\ thr[t].pc = "record" /\ why[t] = "hit"
        /\ entered[t].repeat /\ ~entered[t].had_record

\* C4: a request that ends in a timeout or a connection error is the last
\* request of its call - no later search is sent, the same one is not sent
\* again - and the call returns at once.
C4_FailureEndsResolution ==
    \A t \in Threads : \A i \in DOMAIN log[t] :
        log[t][i].answer \in NetFailures =>
            /\ i = Len(log[t])
            /\ thr[t].pc = "record"

C4_Witness ==
    \E t \in Threads :
        /\ thr[t].pc = "record" /\ why[t] \in NetFailures
        /\ Len(log[t]) < Len(Unskipped(thr[t].file))

\* C5 as stated: the value search_tmdb returns after a timeout or a
\* connection error differs from the value it returns when every search
\* came back empty (None), so that the batch loop does not take the file as
\* not found.
C5_FailureDistinctFromNotFound ==
    \A t \in Threads :
        (thr[t].pc = "record" /\ why[t] \in NetFailures) => thr[t].result # NoResult

\* C6 as stated: a call entered while no API key is configured fails at
\* once - it returns no record and sends no request - whatever the cache
\* holds.
C6_NoKeyAlwaysFails ==
    \A t \in InCall :
        entered[t].api_key = "" =>
            /\ thr[t].pc = "record"
            /\ thr[t].result = NoResult
            /\ log[t] = << >>

\* which rung of the ladder a query string belongs to: the title (1), its
\* Roman-numeral variant (2), its first two words (3), or none (0)
Variant(file, q) ==
    IF q = file.clean THEN 1
    ELSE IF q = query_no_roman(file.clean) THEN 2
    ELSE IF Len(Split(file.clean)) > 2 /\ q = two_word(file.clean) THEN 3
    ELSE 0

\* a query that is empty or "the" once trimmed
Unsearchable(q) == Strip(q) = << >> \/ Lower(Strip(q)) = <<"t", "h", "e">>

\* the rungs that the ladder of a file has, as (query, year parameter)
Rungs(file) ==
    (IF file.year # None THEN {<<file.clean, file.year>>} ELSE {})
    \cup {<<file.clean, None>>}
    \cup (IF query_no_roman(file.clean) # file.clean
            THEN {<<query_no_roman(file.clean), file.year>>,
                  <<query_no_roman(file.clean), None>>}
            ELSE {})
    \cup (IF Len(Split(file.clean)) > 2
            THEN {<<two_word(file.clean), file.year>>, <<two_word(file.clean), None>>}
            ELSE {})

\* C7: the requests of one call are rungs of the ladder of its title and
\* year, sent in the order title, Roman-numeral variant, first two words,
\* and for one query string with the year before without it; a call that
\* ends not found has sent every rung that is searchable.
C7_LadderOrder ==
    \A t \in Threads :
        /\ \A i \in DOMAIN log[t] :
             <<log[t][i].query, log[t][i].year>> \in Rungs(thr[t].file)
        /\ \A i, j \in DOMAIN log[t] :
             i < j =>
               \/ Variant(thr[t].file, log[t][i].query)
                    < Variant(thr[t].file, log[t][j].query)
               \/ /\ log[t][i].query = log[t][j].query
                  /\ ~(log[t][i].year = None /\ log[t][j].year # None)
        /\ (thr[t].pc = "record" /\ why[t] = "exhausted") =>
             \A r \in Rungs(thr[t].file) :
                 Unsearchable(r[1])
                   \/ \E i \in DOMAIN log[t] :
                        log[t][i].query = r[1] /\ log[t][i].year = r[2]

C7_Witness ==
    \E t \in Threads :
        thr[t].pc = "record" /\ why[t] = "exhausted" /\ Len(log[t]) = 6

\* C8 as stated: no request carries a query that, once trimmed, is empty or
\* equals "the" case-insensitively.
C8_UnsearchableNeverSent ==
    \A t \in Threads : \A i \in DOMAIN log[t] : ~Unsearchable(log[t][i].query)

\* C9: a call that gets a hit writes one cache entry, under the key of the
\* clean title and year it was called with, whose value is the record it
\* returns; every other entry stays as it was, and nothing else changes the
\* cache.
C9_OneEntryUnderOriginalKey ==
    [][ /\ \A t \in Threads :
             (why[t] # "hit" /\ why'[t] = "hit") =>
                LET k == cache_key(thr'[t].file.clean, thr'[t].file.year)
                IN /\ DOMAIN tmdb_cache' = DOMAIN tmdb_cache \cup {k}
                   /\ tmdb_cache'[k] = thr'[t].result
                   /\ \A x \in DOMAIN tmdb_cache \ {k} : tmdb_cache'[x] = tmdb_cache[x]
        /\ tmdb_cache' # tmdb_cache =>
             \E t \in Threads : why[t] # "hit" /\ why'[t] = "hit"
      ]_vars

C9_Witness ==
    \E t \in Threads :
        /\ thr[t].pc = "record" /\ why[t] = "hit"
        /\ Len(log[t]) >= 2
        /\ Cardinality(DOMAIN tmdb_cache) >= 2

\* C10 as stated: at no moment are two provider requests in flight.
C10_NoOverlap == InFlight <= 1

(***************************************************************************)
(* Further properties of the resolver                                      *)
(***************************************************************************)
\* C11 as stated: no step of the session takes a key out of the cache or
\* changes the record stored under it.
C11_CacheOnlyGrows ==
    [][ \A k \in DOMAIN tmdb_cache :
           k \in DOMAIN tmdb_cache' /\ tmdb_cache'[k] = tmdb_cache[k] ]_vars

\* C16 as stated: a call on the clean title and year of
\* "Rocky.II.1979.DVDRip.avi" that ends not found has sent a request with
\* the numeral in Arabic, "Rocky 2".
C16_ArabicVariantTried ==
    \A t \in Threads :
        (thr[t].pc = "record" /\ why[t] = "exhausted"
           /\ thr[t].file = normalize(F_RockyII)) =>
            \E i \in DOMAIN log[t] : log[t][i].query = T_Rocky2

\* C18: the record a call returns on a non-empty result list has the title
\* and the id of the first element of the list and, as year, the first four
\* characters of its release date, or UNKNOWN when the release date is
\* missing or empty; the same record is what the cache holds for the call.
C18_RecordFromFirstElement ==
    \A t \in Threads :
        (thr[t].pc = "record" /\ why[t] = "hit") =>
            LET first == log[t][Len(log[t])].results[1]
                rec == thr[t].result
            IN /\ DOMAIN rec = {"title", "year", "id"}
               /\ rec.title = first.title
               /\ rec.id = first.id
               /\ rec.year =
                    IF first.release_date = None \/ first.release_date = << >>
                      THEN <<"U", "N", "K", "N", "O", "W", "N">>
                      ELSE SubSeq(first.release_date, 1, 4)

C18_Witness ==
    \E t \in Threads :
        /\ thr[t].pc = "record" /\ why[t] = "hit"
        /\ Len(log[t][Len(log[t])].results) = 2
        /\ log[t][Len(log[t])].results[1] # log[t][Len(log[t])].results[2]
        /\ thr[t].result.year = <<"U", "N", "K", "N", "O", "W", "N">>

\* C19 as stated: the requests of one call differ pairwise in the query
\* string or in the year parameter.
C19_NoRepeatedRequest ==
    \A t \in Threads : \A i, j \in DOMAIN log[t] :
        i < j => <<log[t][i].query, log[t][i].year>>
                   # <<log[t][j].query, log[t][j].year>>

(***************************************************************************)
(* Properties of the normalizer                                            *)
(***************************************************************************)
\* the normalizer has run on nz.filename
Normalized == nz.pc = "search"

\* sub occurs in s
Contains(s, sub) ==
    \E i \in 1 .. Len(s) - Len(sub) + 1 : SubSeq(s, i, i + Len(sub) - 1) = sub

\* positions of s where a group (YYYY) starts
ParenGroups(s) ==
    {i \in DOMAIN s :
       /\ i + 5 <= Len(s)
       /\ s[i] = "(" /\ s[i + 5] = ")"
       /\ \A k \in i + 1 .. i + 4 : s[k] \in Digits}

\* the 4-digit tokens of s in 1900-2999 with no digit next to them
StandaloneYears(s) ==
    {SubSeq(s, i, i + 3) :
       i \in {j \in DOMAIN s :
                /\ j + 3 <= Len(s)
                /\ \A k \in j .. j + 3 : s[k] \in Digits
                /\ s[j] = "2" \/ (s[j] = "1" /\ s[j + 1] = "9")
                /\ j = 1 \/ s[j - 1] \notin Digits
                /\ j + 3 = Len(s) \/ s[j + 4] \notin Digits}}

\* C12 as stated: for a stem without a (YYYY) group that has a standalone
\* 4-digit token in 1900-2999, whatever stands next to the token, the year
\* returned is such a token and the cleaned title does not contain it.
C12_BareYearExtracted ==
    (Normalized /\ ParenGroups(nz.name) = {} /\ StandaloneYears(nz.name) # {}) =>
        /\ nz.year \in StandaloneYears(nz.name)
        /\ ~Contains(nz.clean_name, nz.year)

\* C13: for a stem with a (YYYY) group the year returned is the four digits
\* of the (first) group, also when a bare 4-digit year stands before it, and
\* no (YYYY) group is left in the cleaned title.
C13_ParenYearFirst ==
    (Normalized /\ ParenGroups(nz.name) # {}) =>
        /\ \E i \in ParenGroups(nz.name) :
             /\ \A j \in ParenGroups(nz.name) : i <= j
             /\ nz.year = SubSeq(nz.name, i + 1, i + 4)
        /\ ParenGroups(nz.clean_name) = {}
        /\ ~Contains(nz.clean_name, <<"(">> \o nz.year \o <<")">>)

C13_Witness ==
    /\ Normalized
    /\ ParenGroups(nz.name) # {}
    /\ \E i \in DOMAIN nz.name :
         /\ BareYearEnd(nz.name, i) # 0
         /\ \A j \in ParenGroups(nz.name) : i < j
         /\ nz.year # SubSeq(nz.name, i + 1, i + 4)

\* C14 as stated: the cleaning steps applied to the cleaned title give the
\* cleaned title again.
C14_CleaningIdempotent ==
    Normalized => clean_name(nz.clean_name) = nz.clean_name

\* C15 as stated: "The.Matrix.1999.1080p.BluRay.x264-GROUP.mkv" is
\* normalized to the clean title "The Matrix" and the year "1999".
C15_MatrixExample ==
    (Normalized /\ nz.filename = F_MatrixRelease) =>
        (nz.clean_name = T_Matrix /\ nz.year = Y1999)

(***************************************************************************)
(* Properties of Apply Renaming                                            *)
(***************************************************************************)
\* the found entries of a preview
FoundItems(pv) == {k \in DOMAIN pv : pv[k].status = "found"}

\* C17: every pass of the loop ends either in the count of successes or
\* with one entry in failed, for the item of that pass; a failure does not
\* end the loop, so that at the end every found item has been handled and
\* successes plus failures are the number of found items.
C17_FailuresIsolated ==
    /\ ap.pc \in {"loop", "done"} =>
         /\ ap.success + Len(ap.failed) = ap.i
         /\ Len(done) = ap.i
         /\ ap.success = Cardinality({k \in DOMAIN done : done[k].counted = "success"})
         /\ \A k \in DOMAIN done :
              /\ done[k].item = ap.processable[k]
              /\ done[k].counted = "failed" =>
                   \E j \in DOMAIN ap.failed : ap.failed[j].name = done[k].item.new_name
    /\ ap.pc = "loop" =>
         Len(ap.processable) = Cardinality(FoundItems(preview_data))
    /\ ap.pc = "done" =>
         /\ ap.i = Len(ap.processable)
         /\ ap.success + Len(ap.failed) = Len(ap.processable)

C17_Witness ==
    /\ ap.pc = "done"
    /\ Len(done) >= 2
    /\ done[1].counted = "failed"
    /\ done[2].counted = "success" /\ done[2].at_target

\* C20 as stated: an item counted as a success has its file at
\* new_folder/new_name when its pass of the loop ends.
C20_SuccessMeansMoved ==
    \A k \in DOMAIN done : done[k].counted = "success" => done[k].at_target

\* C21 as stated: no step of Apply Renaming moves the file or the folder of
\* a preview entry whose status is not_found - a file that is on disk stays
\* at its path and its folder stays a directory.
C21_NotFoundLeftAlone ==
    [][ \A k \in DOMAIN preview_data :
           preview_data[k].status = "not_found" =>
              /\ preview_data[k].filepath \in fs.files =>
                   preview_data[k].filepath \in fs'.files
              /\ dirname(preview_data[k].filepath) \in fs.dirs =>
                   dirname(preview_data[k].filepath) \in fs'.dirs ]_vars

\* C22 as stated: whenever search_tmdb returns a record while the language
\* setting is L, the record was obtained by a request for the same clean
\* title and year that was sent with language L - also when the record comes
\* from the cache after the language setting has been changed.
C22_RecordInSettingLanguage ==
    [][ \A t \in Threads :
           (thr[t].pc # "record" /\ thr'[t].pc = "record"
              /\ thr'[t].result # NoResult) =>
             <<thr'[t].file.clean, thr'[t].file.year, thr'[t].result, language'>>
                \in asked' ]_vars

=============================================================================
